---- MODULE Spec2Model ----
(***************************************************************************)
(* Model of ups_matching_tool.py: the name normaliser, the matching        *)
(* function match_recipient_to_account and the script body that validates  *)
(* the two uploaded frames and matches the shipment rows one by one.       *)
(*                                                                         *)
(* A Python str is a sequence of one-character strings.  A similarity is   *)
(* the exact rational <<numerator, denominator>> of the float the code     *)
(* computes; the slider's threshold is an integer number of hundredths.    *)
(***************************************************************************)
EXTENDS Integers, Sequences, FiniteSets, TLC

(***************************************************************************)
(* Bounds of the model.                                                    *)
(***************************************************************************)
\* rows of the account frame when one call of the matching function is explored
MaxAccounts == 4
\* rows of the shipment frame when the whole run is explored
MaxShipments == 2
\* rows of the account frame when the whole run is explored
MaxRunAccounts == 1

(***************************************************************************)
(* Python values.                                                          *)
(***************************************************************************)
\* the missing value pandas gives an empty cell (float nan); not a str
NaN == <<"nan">>

\* pd.isna / pd.notna of a scalar
isna(name) == name = NaN

LowerCase ==
    <<"a","b","c","d","e","f","g","h","i","j","k","l","m",
      "n","o","p","q","r","s","t","u","v","w","x","y","z">>

UpperCase ==
    <<"A","B","C","D","E","F","G","H","I","J","K","L","M",
      "N","O","P","Q","R","S","T","U","V","W","X","Y","Z">>

Digits == {"0","1","2","3","4","5","6","7","8","9"}

\* str.upper
upper(s) ==
    [k \in 1..Len(s) |->
        IF \E n \in 1..26 : LowerCase[n] = s[k]
        THEN UpperCase[CHOOSE n \in 1..26 : LowerCase[n] = s[k]]
        ELSE s[k]]

RECURSIVE split_from(_, _, _)
split_from(s, cur, acc) ==
    IF s = <<>>
    THEN IF cur = <<>> THEN acc ELSE Append(acc, cur)
    ELSE IF Head(s) = " "
         THEN split_from(Tail(s), <<>>, IF cur = <<>> THEN acc ELSE Append(acc, cur))
         ELSE split_from(Tail(s), Append(cur, Head(s)), acc)

\* str.split() without arguments: the maximal runs of non-blank characters
split(s) == split_from(s, <<>>, <<>>)

RECURSIVE join(_, _)
\* sep.join(parts)
join(sep, parts) ==
    IF parts = <<>> THEN <<>>
    ELSE IF Len(parts) = 1 THEN parts[1]
    ELSE parts[1] \o sep \o join(sep, Tail(parts))

\* Python's  sub in s  for two str
contains(sub, s) ==
    \E k \in 0..(Len(s) - Len(sub)) : SubSeq(s, k + 1, k + Len(sub)) = sub

\* list[:n]
take(list, n) == SubSeq(list, 1, IF Len(list) < n THEN Len(list) ELSE n)

(***************************************************************************)
(* normalize_name                                                          *)
(***************************************************************************)
\* re.sub(r'[^A-Z0-9 ]', '', name): every other character is deleted
remove_punctuation(name) ==
    SelectSeq(name, LAMBDA c : \/ \E n \in 1..26 : UpperCase[n] = c
                               \/ c \in Digits
                               \/ c = " ")

\* the alternatives of the regular expression of line 15
stopwords ==
    { <<"A","U","S","T","R","A","L","I","A">>, <<"A","U","S","T">>,
      <<"P","T","Y">>, <<"P","/","L">>, <<"L","T","D">>,
      <<"L","I","M","I","T","E","D">>,
      <<"C","O","R","P","O","R","A","T","I","O","N">>, <<"I","N","C">>,
      <<"P","T","E">>, <<"C","O">>, <<"T","H","E">>, <<"A","N","D">>,
      <<"&">> }

\* Lines 15-16.  After line 14 the text holds only letters, digits and
\* blanks, so \b lies exactly at the ends of the maximal non-blank runs: the
\* substitution deletes the runs that are a stop word, and collapsing the
\* blanks and stripping leaves the other runs joined by single blanks.
remove_stopwords(name) ==
    join(<<" ">>, SelectSeq(split(name), LAMBDA w : w \notin stopwords))

normalize_name(name) ==
    IF isna(name) THEN <<>>
    ELSE remove_stopwords(remove_punctuation(upper(name)))

(***************************************************************************)
(* difflib.SequenceMatcher(None, a, b).ratio()                             *)
(***************************************************************************)
RECURSIVE common_prefix(_, _, _, _, _, _)
\* length of the longest common run of a[i..ahi] and b[j..bhi] from i and j
common_prefix(a, i, ahi, b, j, bhi) ==
    IF i > ahi \/ j > bhi \/ a[i] # b[j] THEN 0
    ELSE 1 + common_prefix(a, i + 1, ahi, b, j + 1, bhi)

\* of the blocks <<i, j, size>>: the longest; of those the earliest in a; of
\* those the earliest in b
earliest_longest(blocks) ==
    CHOOSE x \in blocks :
        \A y \in blocks :
            \/ x[3] > y[3]
            \/ x[3] = y[3] /\ x[1] < y[1]
            \/ x[3] = y[3] /\ x[1] = y[1] /\ x[2] <= y[2]

\* find_longest_match (no junk: isjunk is None, and autojunk only applies to
\* a b of 200 characters or more)
find_longest_match(a, alo, ahi, b, blo, bhi) ==
    IF alo > ahi \/ blo > bhi THEN <<alo, blo, 0>>
    ELSE earliest_longest({ <<i, j, common_prefix(a, i, ahi, b, j, bhi)>> :
                                i \in alo..ahi, j \in blo..bhi })

RECURSIVE matching_size(_, _, _, _, _, _)
\* get_matching_blocks: the block, then the text left of it, then right of it
matching_size(a, alo, ahi, b, blo, bhi) ==
    LET m == find_longest_match(a, alo, ahi, b, blo, bhi)
    IN IF m[3] = 0 THEN 0
       ELSE m[3] + matching_size(a, alo, m[1] - 1, b, blo, m[2] - 1)
                 + matching_size(a, m[1] + m[3], ahi, b, m[2] + m[3], bhi)

\* _calculate_ratio: 2.0 * matches / length, and 1.0 when length is 0
ratio(a, b) ==
    IF Len(a) + Len(b) = 0 THEN <<1, 1>>
    ELSE <<2 * matching_size(a, 1, Len(a), b, 1, Len(b)), Len(a) + Len(b)>>

\* x >= y for two rationals
geq(x, y) == x[1] * y[2] >= y[1] * x[2]

\* a similarity against the slider's value, in hundredths
at_least(x, threshold) == x[1] * 100 >= threshold * x[2]

\* round(score, 3), in thousandths (ties go to the even neighbour)
round3(x) ==
    LET q == (1000 * x[1]) \div x[2]
        r == (1000 * x[1]) % x[2]
    IN IF 2 * r > x[2] THEN q + 1
       ELSE IF 2 * r = x[2] THEN q + (q % 2)
       ELSE q

(***************************************************************************)
(* A DataFrame is [columns |-> the set of its column names,                *)
(*                 rows    |-> the sequence of its rows],                  *)
(* a row being a function from the column names to the cells.              *)
(***************************************************************************)
\* df[column] = cells
assign(df, column, cells) ==
    [columns |-> df.columns \cup {column},
     rows    |-> [k \in 1..Len(df.rows) |->
                    [c \in df.columns \cup {column} |->
                        IF c = column THEN cells[k] ELSE df.rows[k][c]]]]

\* list(df[column])
column_list(rows, column) == [k \in 1..Len(rows) |-> rows[k][column]]

\* sort_values with ascending=True
sort_values_ascending(df) ==
    { order \in Permutations(1..Len(df.rows)) :
        \A k \in 1..(Len(df.rows) - 1) :
            geq(df.rows[order[k + 1]]["Similarity"], df.rows[order[k]]["Similarity"]) }

\* The orders sort_values(by='Similarity', ascending=False) may return: every
\* permutation of the rows with the similarities descending.  The default
\* kind is 'quicksort', which is not stable, so the order among rows of
\* equal similarity is whatever the numpy build produces.
sort_values(df) ==
    { order \in Permutations(1..Len(df.rows)) :
        \A k \in 1..(Len(df.rows) - 1) :
            geq(df.rows[order[k]]["Similarity"], df.rows[order[k + 1]]["Similarity"]) }

(***************************************************************************)
(* match_recipient_to_account                                              *)
(***************************************************************************)
\* the account given to a shipment that matches none
Cash == <<"C","a","s","h">>

company_indicators ==
    << <<"P","T","Y">>, <<"L","T","D">>, <<"P","/","L">>, <<"L","A","B","S">>,
       <<"L","A","B","O","R","A","T","O","R","I","E","S">>,
       <<"C","O","R","P","O","R","A","T","I","O","N">>, <<"I","N","C">>,
       <<"C","O">> >>

\* the sizes the branches of lines 35, 39 and 52 compare against
OneMatch == 1
OneWord == 1
\* sorted_matches.head(3)
TopN == 3
\* split()[:2]
LeadingWords == 2

\* line 23
with_normalized_name(acc_df) ==
    assign(acc_df, "Normalized Name",
           [k \in 1..Len(acc_df.rows) |-> normalize_name(acc_df.rows[k]["Customer Name"])])

\* lines 26-28
with_similarity(normalized_recipient, acc_df) ==
    assign(acc_df, "Similarity",
           [k \in 1..Len(acc_df.rows) |->
               ratio(normalized_recipient, acc_df.rows[k]["Normalized Name"])])

\* lines 21-28: the frame with its two derived columns (re)written
scored(recipient_name, acc_df) ==
    with_similarity(normalize_name(recipient_name), with_normalized_name(acc_df))

\* lines 30-31, for the order the sort returned
head_of_sorted(df, order) ==
    take([k \in 1..Len(df.rows) |-> df.rows[order[k]]], TopN)

\* line 33 with > for >=
high_conf_above(top_matches, threshold) ==
    SelectSeq(top_matches,
              LAMBDA row : row["Similarity"][1] * 100 > threshold * row["Similarity"][2])

\* line 33 with <= for >=
high_conf_at_most(top_matches, threshold) ==
    SelectSeq(top_matches,
              LAMBDA row : row["Similarity"][1] * 100 <= threshold * row["Similarity"][2])

\* line 33: the rows of top_matches at or above the threshold
high_conf(top_matches, threshold) ==
    SelectSeq(top_matches, LAMBDA row : at_least(row["Similarity"], threshold))

\* the first of the positions
first_of(hits) == IF hits = {} THEN 0 ELSE CHOOSE k \in hits : \A h \in hits : k <= h

\* lines 41-45 with [:1] for [:2]
first_word_match(rec_words, high_conf_matches) ==
    first_of({ k \in 1..Len(high_conf_matches) :
                 take(split(high_conf_matches[k]["Normalized Name"]), 1)
                    = take(rec_words, 1) })

\* lines 41-45: the first row of high_conf_matches whose first two words are
\* rec_words (0 when there is none)
first_two_word_match(rec_words, high_conf_matches) ==
    first_of({ k \in 1..Len(high_conf_matches) :
                 take(split(high_conf_matches[k]["Normalized Name"]), LeadingWords)
                    = rec_words })

\* line 53: no indicator is a substring of the upper-cased name
no_indicator_in(upper_name) ==
    ~ \E n \in 1..Len(company_indicators) : contains(company_indicators[n], upper_name)

\* lines 52-53
treated_as_personal(normalized_recipient, recipient_name) ==
    /\ Len(split(normalized_recipient)) <= OneWord
    /\ no_indicator_in(upper(recipient_name))

\* a call that raised: no value is returned
raise(exception, locals) == [raised |-> exception, ret |-> <<>>] @@ locals

\* a call that returned
return(ret, locals) == [raised |-> "none", ret |-> ret] @@ locals

\* the return statements of lines 37, 45 and 48; row['Account Number'] raises
\* KeyError when the sheet has no such column
return_row(row, suggestions, comment, locals) ==
    IF "Account Number" \in DOMAIN row
    THEN return(<<row["Account Number"], row["Similarity"], suggestions, comment>>, locals)
    ELSE raise("KeyError", locals)

\* lines 39-48
several_matches(hit, high_conf_matches, suggestions, locals) ==
    IF hit # 0
    THEN return_row(high_conf_matches[hit], suggestions, "First-two-word match", locals)
    ELSE return_row(high_conf_matches[1], suggestions, "Multiple close matches", locals)

\* lines 50-56; nan is a float, so recipient_name.upper() raises
no_match(recipient_name, normalized_recipient, suggestions, locals) ==
    IF Len(split(normalized_recipient)) <= OneWord /\ isna(recipient_name)
    THEN raise("AttributeError", locals)
    ELSE IF treated_as_personal(normalized_recipient, recipient_name)
    THEN return(<<Cash, <<0, 1>>, <<>>, "Treated as personal name">>, locals)
    ELSE return(<<Cash, <<0, 1>>, suggestions, "No good match">>, locals)

\* lines 35-56
decide(recipient_name, normalized_recipient, high_conf_matches, suggestions, locals) ==
    IF Len(high_conf_matches) = OneMatch
    THEN return_row(high_conf_matches[1], suggestions, "One strong match", locals)
    ELSE IF Len(high_conf_matches) > OneMatch
    THEN several_matches(
            first_two_word_match(take(split(normalized_recipient), LeadingWords),
                                 high_conf_matches),
            high_conf_matches, suggestions, locals)
    ELSE no_match(recipient_name, normalized_recipient, suggestions, locals)

\* lines 33-56, with the locals the result records
select(recipient_name, normalized_recipient, df, top_matches, high_conf_matches) ==
    decide(recipient_name, normalized_recipient, high_conf_matches,
           column_list(top_matches, "Customer Name"),
           [acc_df |-> df,
            normalized_recipient |-> normalized_recipient,
            top_matches |-> top_matches,
            high_conf_matches |-> high_conf_matches])

\* lines 30-56 on the frame that lines 21-28 left
top_three(recipient_name, normalized_recipient, df, top_matches, threshold) ==
    select(recipient_name, normalized_recipient, df, top_matches,
           high_conf(top_matches, threshold))

\* Lines 30-56, on the frame df that lines 21-28 left, for the order the
\* sort returned.  The result holds the frame as the call leaves it, the
\* exception it raised ("none" when it returned), what it returned, and
\* its locals.
ranked(recipient_name, df, threshold, order) ==
    top_three(recipient_name, normalize_name(recipient_name), df,
              head_of_sorted(df, order), threshold)

\* the call, for the order the sort returned
match_recipient_to_account(recipient_name, acc_df, threshold, order) ==
    ranked(recipient_name, scored(recipient_name, acc_df), threshold, order)

(***************************************************************************)
(* The script body, lines 61-108, once both files are uploaded.            *)
(***************************************************************************)
VARIABLES
    ship_df,    \* pd.read_excel(uploaded_shipment)
    acc_df,     \* pd.read_excel(uploaded_accounts); the matching function writes to it
    threshold,  \* the slider's value, in hundredths
    pc,         \* "validate", "loop", "done", "columns_missing" or "exception"
    results,    \* the list the loop appends to
    result_df,  \* pd.DataFrame(results), the frame shown and offered for download
    call        \* the arguments, locals and result of the latest call of the matching function

vars == <<ship_df, acc_df, threshold, pc, results, result_df, call>>

\* st.slider(..., 0.5, 1.0, 0.8, 0.01)
SliderMin == 50
SliderMax == 100
SliderDefault == 80

DigitChars == <<"1","2","3","4","5","6","7","8","9">>

\* the inputs explored
Thresholds == {SliderMin, SliderDefault, SliderMax}

Recipients ==
    { NaN, <<"a"," ","b">>, <<".">>, <<"C","o","x">> }

Customers ==
    << <<"A"," ","B"," ","P","t","y">>, <<"A"," ","B","C">>,
       <<"A"," ","B"," ","D","D">>, <<"P","t","y"," ","L","t","d">> >>

RunThresholds == {SliderDefault}

RunRecipients == { NaN, <<"a"," ","b">>, <<"C","o","x">> }

RunCustomers == { NaN, <<"A"," ","B"," ","P","t","y">>, <<"P","t","y"," ","L","t","d">> }

ShipmentColumns == {"Tracking Number", "Recipient Company Name"}

AccountColumns == {"Customer Name", "Account Number"}

\* a shipment sheet with the given columns, one row per recipient
shipment_frame(columns, names) ==
    [columns |-> columns,
     rows |-> [k \in 1..Len(names) |->
                 [c \in columns |->
                     IF c = "Tracking Number" THEN <<"1","Z",DigitChars[k]>> ELSE names[k]]]]

\* an account sheet with the given columns, one row per customer
account_frame(columns, names) ==
    [columns |-> columns,
     rows |-> [k \in 1..Len(names) |->
                 [c \in columns |->
                     IF c = "Account Number" THEN <<"A",DigitChars[k]>> ELSE names[k]]]]

sequences(S, lo, hi) == UNION { [1..n -> S] : n \in lo..hi }

\* The sheets of at most hi rows that list customers of the tuple in the
\* tuple's order.  A sheet that lists the same customers in another order
\* differs only in which account number goes with which customer, since
\* sort_values may return rows of equal similarity in any order.
listings(customers, hi) ==
    UNION { { [k \in 1..n |-> customers[f[k]]] :
                f \in { g \in [1..n -> 1..Len(customers)] :
                          \A k \in 1..(n - 1) : g[k] <= g[k + 1] } } :
            n \in 0..hi }

no_call ==
    [recipient_name |-> <<>>, raised |-> "no call", ret |-> <<>>,
     normalized_recipient |-> <<>>, top_matches |-> <<>>, high_conf_matches |-> <<>>]

Uploaded(ships, accounts, thresholds) ==
    /\ ship_df \in ships
    /\ acc_df \in accounts
    /\ threshold \in thresholds
    /\ pc = "validate"
    /\ results = <<>>
    /\ result_df = <<>>
    /\ call = no_call

\* any two sheets: each may lack one of its columns
Init ==
    Uploaded({ shipment_frame(columns, names) :
                  columns \in {ShipmentColumns, {"Recipient Company Name"}, {"Tracking Number"}},
                  names \in sequences(RunRecipients, 0, MaxShipments) },
             { account_frame(columns, names) :
                  columns \in {AccountColumns, {"Customer Name"}, {"Account Number"}},
                  names \in sequences(RunCustomers, 0, MaxRunAccounts) },
             RunThresholds)

\* one shipment against a larger directory, both sheets complete
InitMatch ==
    Uploaded({ shipment_frame(ShipmentColumns, names) :
                  names \in sequences(Recipients, 1, 1) },
             { account_frame(AccountColumns, names) :
                  names \in listings(Customers, MaxAccounts) },
             Thresholds)

\* lines 71-74
Validate ==
    /\ pc = "validate"
    /\ IF \/ "Recipient Company Name" \notin ship_df.columns
          \/ "Customer Name" \notin acc_df.columns
       THEN pc' = "columns_missing"
       ELSE pc' = "loop"
    /\ results' = <<>>
    /\ UNCHANGED <<ship_df, acc_df, threshold, result_df, call>>

\* lines 79-86
result_row(row, ret) ==
    [tracking_number |-> IF "Tracking Number" \in DOMAIN row
                         THEN row["Tracking Number"] ELSE <<>>,
     recipient_company_name |-> row["Recipient Company Name"],
     matched_account |-> ret[1],
     similarity_score |-> round3(ret[2]),
     suggestions |-> join(<<",", " ">>, SelectSeq(ret[3], LAMBDA s : ~isna(s))),
     match_notes |-> ret[4]]

\* the call of lines 76-78 on the frame as lines 21-28 leave it, and lines 79-86
Matched(row, df) ==
    \E order \in sort_values(df) :
        LET m == ranked(row["Recipient Company Name"], df, threshold, order)
        IN /\ acc_df' = m.acc_df
           /\ call' = [recipient_name |-> row["Recipient Company Name"],
                       raised |-> m.raised,
                       ret |-> m.ret,
                       normalized_recipient |-> m.normalized_recipient,
                       top_matches |-> m.top_matches,
                       high_conf_matches |-> m.high_conf_matches]
           /\ IF m.raised = "none"
              THEN /\ results' = Append(results, result_row(row, m.ret))
                   /\ pc' = pc
              ELSE /\ results' = results
                   /\ pc' = "exception"

\* lines 75-86, one iteration; an exception leaves the loop for line 105
MatchRow ==
    /\ pc = "loop"
    /\ Len(results) < Len(ship_df.rows)
    /\ Matched(ship_df.rows[Len(results) + 1],
               scored(ship_df.rows[Len(results) + 1]["Recipient Company Name"], acc_df))
    /\ UNCHANGED <<ship_df, threshold, result_df>>

\* lines 88-104
Finish ==
    /\ pc = "loop"
    /\ Len(results) = Len(ship_df.rows)
    /\ result_df' = results
    /\ pc' = "done"
    /\ UNCHANGED <<ship_df, acc_df, threshold, results, call>>

Next == Validate \/ MatchRow \/ Finish

Spec == Init /\ [][Next]_vars

SpecMatch == InitMatch /\ [][Next]_vars

(***************************************************************************)
(* Properties.                                                             *)
(***************************************************************************)
\* the latest call of the matching function returned
Returned == call.raised = "none"

\* the latest call was made (it returned or raised)
Called == call.raised # "no call"

\* the rows of the account frame at or above a threshold
strong_rows(t) ==
    { k \in 1..Len(acc_df.rows) : at_least(acc_df.rows[k]["Similarity"], t) }

\* the positions of top_matches at or above the threshold
strong_top == { k \in 1..Len(call.top_matches) :
                  at_least(call.top_matches[k]["Similarity"], threshold) }

\* top_matches holds the TopN best rows of the frame, best first
TopIsBest ==
    /\ Len(call.top_matches) = (IF Len(acc_df.rows) < TopN THEN Len(acc_df.rows) ELSE TopN)
    /\ \A k \in 1..Len(call.top_matches) :
         /\ \E r \in 1..Len(acc_df.rows) : acc_df.rows[r] = call.top_matches[k]
         /\ \A j \in 1..Len(call.top_matches) :
              j # k => call.top_matches[j]["Account Number"] # call.top_matches[k]["Account Number"]
         /\ k > 1 => geq(call.top_matches[k - 1]["Similarity"], call.top_matches[k]["Similarity"])
         /\ Cardinality({ r \in 1..Len(acc_df.rows) :
                            ~geq(call.top_matches[k]["Similarity"], acc_df.rows[r]["Similarity"]) }) < k
    /\ \A r \in 1..Len(acc_df.rows) :
         acc_df.rows[r]["Similarity"] =
            ratio(normalize_name(call.recipient_name), normalize_name(acc_df.rows[r]["Customer Name"]))

\* the first two words of a name, normalised
leading(name) == take(split(normalize_name(name)), LeadingWords)

minimum(S) == CHOOSE k \in S : \A h \in S : k <= h

\* C1: a recipient name of at most two words, none of them a company
\* indicator, is given Cash with score 0 and no suggestions, whatever the
\* account directory and the threshold.  (Stated for the names that do not
\* normalise to the empty string, which C7 is about.)
C1_PersonalNameShortCircuit ==
    ( /\ Called
      /\ ~isna(call.recipient_name)
      /\ normalize_name(call.recipient_name) # <<>>
      /\ Len(split(call.recipient_name)) <= 2
      /\ \A w \in 1..Len(split(call.recipient_name)) :
            \A n \in 1..Len(company_indicators) :
                upper(split(call.recipient_name)[w]) # company_indicators[n] )
    => ( /\ Returned
         /\ call.ret[1] = Cash
         /\ call.ret[2] = <<0, 1>>
         /\ call.ret[3] = <<>> )

\* C2: a shipment row whose recipient name is null does not abort the run:
\* the call returns an outcome and the loop goes on.
C2_NullRecipientNeverAborts ==
    ( /\ Called
      /\ isna(call.recipient_name)
      /\ AccountColumns \subseteq acc_df.columns )
    => ( Returned /\ pc # "exception" )

\* C3: when the shipment sheet lacks Recipient Company Name, or the account
\* sheet lacks Customer Name or Account Number, the run stops before any row
\* is matched and no outcome is produced.
C3_MissingColumnAbortsBeforeMatching ==
    ( \/ "Recipient Company Name" \notin ship_df.columns
      \/ "Customer Name" \notin acc_df.columns
      \/ "Account Number" \notin acc_df.columns )
    => ( ~Called /\ results = <<>> /\ result_df = <<>> )

\* C4: a run on two sheets that hold all their columns ends with exactly one
\* outcome per shipment, in the shipments' order, each carrying its
\* shipment's tracking number and recipient name.
C4_OneOutcomePerShipment ==
    ( /\ ShipmentColumns \subseteq ship_df.columns
      /\ AccountColumns \subseteq acc_df.columns
      /\ pc \in {"done", "exception"} )
    => ( /\ pc = "done"
         /\ Len(result_df) = Len(ship_df.rows)
         /\ \A k \in 1..Len(ship_df.rows) :
              /\ result_df[k].recipient_company_name = ship_df.rows[k]["Recipient Company Name"]
              /\ result_df[k].tracking_number = ship_df.rows[k]["Tracking Number"] )

\* every call that finds the frame df scored at one of the thresholds, for every order
\* the sort may return, gives Cash
all_cash(df, orders, thresholds) ==
    \A order \in orders :
        \A t \in thresholds :
            LET m == ranked(call.recipient_name, df, t, order)
            IN m.raised = "none" /\ m.ret[1] = Cash

\* some call that finds the frame df scored at one of the thresholds accepts an account
some_accepted(df, orders, thresholds) ==
    \E order \in orders :
        \E t \in thresholds :
            LET m == ranked(call.recipient_name, df, t, order)
            IN m.raised = "none" /\ m.ret[1] # Cash

\* C5: for a fixed recipient and account directory, if the call gives Cash at
\* the threshold then it gives Cash at every higher threshold, whatever order
\* the sort returns.
C5_ThresholdMonotone ==
    ( Returned /\ pc = "loop" /\ call.ret[1] = Cash )
    => /\ scored(call.recipient_name, acc_df) = acc_df
       /\ all_cash(acc_df, sort_values(acc_df), { t \in Thresholds : t > threshold })

\* C5's case: a recipient given Cash at a threshold below the slider's
\* maximum that a lower threshold would have accepted
C5_Witness ==
    /\ Returned
    /\ call.ret[1] = Cash
    /\ threshold < SliderMax
    /\ some_accepted(acc_df, sort_values(acc_df), { t \in Thresholds : t < threshold })

\* the rows whose normalised name is the recipient's normalised name
exact_rows ==
    { k \in 1..Len(acc_df.rows) :
        normalize_name(acc_df.rows[k]["Customer Name"]) = normalize_name(call.recipient_name) }

\* C6 as stated: when the recipient's normalised name is the normalised name
\* of some account, that account is accepted with the top score and the
\* note "One strong match", whatever else the directory holds.  (Stated for
\* the names that do not normalise to the empty string, which C7 is about.)
C6_ExactMatchSingleStrong ==
    ( Called /\ exact_rows # {} /\ call.normalized_recipient # <<>> )
    => ( /\ Returned
         /\ \E k \in exact_rows : call.ret[1] = acc_df.rows[k]["Account Number"]
         /\ geq(call.ret[2], <<1, 1>>)
         /\ call.ret[4] = "One strong match" )

\* C6 as amended: when the recipient's normalised name is the normalised name
\* of some account, an account of that normalised name is accepted with the
\* top score; the note is "One strong match" when it is the only one of the
\* top three at or above the threshold, and "First-two-word match" otherwise.
C6_ExactMatchAccepted ==
    ( Called /\ exact_rows # {} )
    => ( /\ Returned
         /\ \E k \in exact_rows : call.ret[1] = acc_df.rows[k]["Account Number"]
         /\ geq(call.ret[2], <<1, 1>>)
         /\ call.ret[4] = (IF Cardinality(strong_top) = 1
                           THEN "One strong match" ELSE "First-two-word match") )

\* C6's case: an exact match accepted beside another strong candidate that
\* is not exact
C6_Witness ==
    /\ Returned
    /\ exact_rows # {}
    /\ call.ret[4] = "First-two-word match"
    /\ \E k \in strong_top :
         call.top_matches[k]["Normalized Name"] # call.normalized_recipient

\* C7: a recipient name that normalises to the empty string has no account
\* at or above the threshold and is given Cash.
C7_EmptyRecipientIsCash ==
    ( /\ Called
      /\ ~isna(call.recipient_name)
      /\ normalize_name(call.recipient_name) = <<>> )
    => ( /\ Returned
         /\ strong_rows(threshold) = {}
         /\ call.ret[1] = Cash )

\* C8: a step of the run that ends in the loop, the matching of a shipment
\* that returned an outcome among them, leaves the shipment sheet and the
\* account directory as they were.
C8_InputsUnchanged ==
    [][pc' = "loop" => (ship_df' = ship_df /\ acc_df' = acc_df)]_vars

\* C9: when more than one of the top three is at or above the threshold, the
\* first of them in ranked order whose first two normalised words are the
\* recipient's is accepted with the note "First-two-word match"; when there
\* is none, the best of them is accepted with the note "Multiple close
\* matches".
C9_TieBreak ==
    ( Returned /\ Cardinality(strong_top) > 1 )
    => LET agreeing == { k \in strong_top :
                           leading(call.top_matches[k]["Customer Name"])
                              = leading(call.recipient_name) }
           chosen == IF agreeing # {} THEN minimum(agreeing) ELSE minimum(strong_top)
       IN /\ TopIsBest
          /\ call.ret[1] = call.top_matches[chosen]["Account Number"]
          /\ call.ret[2] = call.top_matches[chosen]["Similarity"]
          /\ call.ret[4] = (IF agreeing # {} THEN "First-two-word match"
                            ELSE "Multiple close matches")
          /\ agreeing = {} =>
                \A r \in 1..Len(acc_df.rows) :
                    geq(call.ret[2], acc_df.rows[r]["Similarity"])

\* C9's case: the tie-break passes over the best candidate for a lower one
\* that shares the recipient's first two words
C9_Witness ==
    /\ Returned
    /\ Cardinality(strong_top) > 1
    /\ call.ret[4] = "First-two-word match"
    /\ call.ret[1] # call.top_matches[1]["Account Number"]
    /\ ~geq(call.ret[2], call.top_matches[1]["Similarity"])

\* C10: an outcome with an account other than Cash has a score at or above
\* the threshold and the account of one of the at most three suggestions; an
\* outcome with Cash has score 0 and is given only when none of the top
\* three, hence no account at all, is at or above the threshold.
C10_OutcomeInvariant ==
    Returned
    => IF call.ret[1] # Cash
       THEN /\ at_least(call.ret[2], threshold)
            /\ Len(call.ret[3]) <= TopN
            /\ \E r \in 1..Len(acc_df.rows) :
                 /\ acc_df.rows[r]["Account Number"] = call.ret[1]
                 /\ acc_df.rows[r]["Similarity"] = call.ret[2]
                 /\ \E k \in 1..Len(call.ret[3]) :
                      call.ret[3][k] = acc_df.rows[r]["Customer Name"]
       ELSE /\ call.ret[2] = <<0, 1>>
            /\ strong_top = {}
            /\ strong_rows(threshold) = {}

\* C10's case: an account accepted from a directory of more rows than the
\* suggestions hold, another row of which is also at or above the threshold
C10_Witness ==
    /\ Returned
    /\ call.ret[1] # Cash
    /\ Len(acc_df.rows) > TopN
    /\ Len(call.ret[3]) = TopN
    /\ Cardinality(strong_rows(threshold)) > TopN

====
